---- MODULE Spec2Model ----
(***************************************************************************)
(* Topology and forwarding core of the network simulator: the heap of      *)
(* Device objects (EndDevice, Hub, Bus), the Connection objects joining    *)
(* them, the Network that creates them, the log files the devices write,   *)
(* and the depth-first forwarding sweep started by EndDevice::sendData.    *)
(*                                                                         *)
(* A sweep is a chain of nested, blocking calls.  It is modelled by its    *)
(* call stack: one frame per active sendData / receiveData loop, one step  *)
(* per loop iteration or return.  No other operation runs while the stack  *)
(* is non-empty (the program is single-threaded).                          *)
(***************************************************************************)
EXTENDS Integers, Sequences, FiniteSets, TLC

\* ---- bounds of the model ----
MaxDevices == 2      \* Device objects ever constructed
MaxConns == 1        \* Connection objects ever constructed
MaxSends == 1        \* sendData calls made by the driver
MaxDepth == 7        \* call-stack depth at which the process overflows
StarDevices == 3     \* EndDevices around the one hub of SpecStar
StarConns == 3       \* attach operations in SpecStar
StarSends == 1       \* sendData calls in SpecStar
DirectDevices == 2   \* EndDevices in SpecDirect
DirectConns == 1     \* connectDevices calls in SpecDirect
DirectSends == 2     \* sendData calls in SpecDirect
TreeEndDevices == 2  \* EndDevices in SpecTree
TreeRepeaters == 2   \* hubs and buses in SpecTree
TreeConns == 3       \* attach operations in SpecTree
TreeSends == 1       \* sendData calls in SpecTree
LifeDevices == 3     \* Device objects in SpecLife
LifeConns == 2       \* connections in SpecLife
LifeSends == 1       \* sendData calls in SpecLife
BackboneHubs == 3    \* hubs in SpecBackbone
BackboneEndDevices == 1  \* EndDevices in SpecBackbone
BackboneConns == 4   \* attach operations in SpecBackbone
BackboneSends == 1   \* sendData calls in SpecBackbone
MediumEndDevices == 2  \* EndDevices in SpecMedium
MediumConns == 3     \* attach operations in SpecMedium
MediumSends == 1     \* sendData calls in SpecMedium
MeshDevices == 3     \* Device objects in SpecMesh
MeshConns == 2       \* connect and attach operations in SpecMesh
MeshSends == 1       \* sendData calls in SpecMesh
AttachDevices == 3   \* Device objects in SpecAttach
AttachConns == 3     \* connect and attach operations in SpecAttach

\* ---- inputs ----
NameInputs == {"", "PC1"}    \* name argument of createEndDevice / createHub
BusNames == {"Bus"}          \* name argument of Bus::Bus (its default)
Payloads == {"a", "b"}       \* data argument of sendData

\* ---- values of the code ----
NULL == 0            \* nullptr: no device (device ids start at 1)
InvalidPort == -1    \* getPortNumber's "not an endpoint" result
NoPort == -2         \* a log line that prints no port number

VARIABLES
    dev,             \* heap of Device objects, indexed by device id
    conn,            \* heap of Connection objects, indexed by connection id
    netDevices,      \* Network::devices
    netConnections,  \* Network::connections
    nextId,          \* Network::nextId
    logs,            \* the log files: file name (device name) -> lines
    stack,           \* call stack of the sweep in progress
    calls,           \* receiveData invocations of the latest sendData, in order
    origin,          \* the latest sendData call: <<device, data>>; <<>> before the
                     \* first one and again once a connection has been added
    nsends,          \* number of sendData calls made so far
    crashed,         \* the process died of stack exhaustion
    destroyed,       \* Network::~Network has run
    deletedDevices,  \* Device objects that were deleted
    deletedConnections  \* Connection objects that were deleted

vars == <<dev, conn, netDevices, netConnections, nextId, logs, stack, calls,
          origin, nsends, crashed, destroyed, deletedDevices, deletedConnections>>

lifetime == <<destroyed, deletedDevices, deletedConnections>>

topology == <<dev, conn, netDevices, netConnections, nextId>>

DevIds == 1..Len(dev)
ConnIds == 1..Len(conn)
EndDevices == {d \in DevIds : dev[d].kind = "EndDevice"}
Hubs == {d \in DevIds : dev[d].kind = "Hub"}
Buses == {d \in DevIds : dev[d].kind = "Bus"}

\* No call is in progress on a live process and a live Network
Idle == stack = <<>> /\ ~crashed /\ ~destroyed

\* ---- log files (EndDevice.cpp, Hub.cpp, bus.cpp: logMessage) ----
Line(tag, who, port, data) == [tag |-> tag, who |-> who, port |-> port, data |-> data]

\* ofstream logFile(logFilePath): creates or truncates the file, writes the header
CreateLog(lg, name, header) ==
    [n \in (DOMAIN lg) \cup {name} |->
        IF n = name THEN <<Line(header, name, NoPort, "")>> ELSE lg[n]]

\* ofstream logFile(logFilePath, ios::app): appends one line
LogMessage(lg, name, line) ==
    [n \in (DOMAIN lg) \cup {name} |->
        IF n = name
        THEN (IF n \in DOMAIN lg THEN Append(lg[n], line) ELSE <<line>>)
        ELSE lg[n]]

\* ---- Connection ----
Connection(devA, devB, pA, pB) ==
    [deviceA |-> devA, deviceB |-> devB, portA |-> pA, portB |-> pB]

GetOtherDevice(c, d) ==
    IF d = c.deviceA THEN c.deviceB
    ELSE IF d = c.deviceB THEN c.deviceA
    ELSE NULL

\* GetPortNumber without the deviceB branch
GetPortNumberFirstOnly(c, d) ==
    IF d = c.deviceA THEN c.portA
    ELSE InvalidPort

GetPortNumber(c, d) ==
    IF d = c.deviceA THEN c.portA
    ELSE IF d = c.deviceB THEN c.portB
    ELSE InvalidPort

\* ---- Device ----
NewDevice(kind, name) ==
    [kind |-> kind, name |-> name, connections |-> <<>>,
     nextPort |-> 0, connectedDevices |-> <<>>]

AddConnection(devs, d, c) ==
    [devs EXCEPT ![d].connections = Append(@, c)]

\* ---- Network ----
\* AutoName numbering by the count of devices instead of nextId
AutoNameBySize(prefix, name) ==
    IF name = "" THEN prefix \o ToString(Len(netDevices) + 1) ELSE name

AutoName(prefix, name) ==
    IF name = "" THEN prefix \o ToString(nextId) ELSE name

CreateEndDevice(name) ==
    /\ Idle
    /\ LET deviceName == AutoName("PC", name) IN
        /\ nextId' = IF name = "" THEN nextId + 1 ELSE nextId
        /\ dev' = Append(dev, NewDevice("EndDevice", deviceName))
        /\ logs' = CreateLog(logs, deviceName, "=== Message Log for")
        /\ netDevices' = Append(netDevices, Len(dev) + 1)
    /\ UNCHANGED <<conn, netConnections, stack, calls, origin, nsends, crashed,
                   lifetime>>

CreateHub(name) ==
    /\ Idle
    /\ LET hubName == AutoName("Hub", name) IN
        /\ nextId' = IF name = "" THEN nextId + 1 ELSE nextId
        /\ dev' = Append(dev, NewDevice("Hub", hubName))
        /\ logs' = CreateLog(logs, hubName, "=== Activity Log for Hub")
        /\ netDevices' = Append(netDevices, Len(dev) + 1)
    /\ UNCHANGED <<conn, netConnections, stack, calls, origin, nsends, crashed,
                   lifetime>>

\* A Bus is constructed by its own constructor; Network has no createBus.
CreateBus(name) ==
    /\ Idle
    /\ dev' = Append(dev, NewDevice("Bus", name))
    /\ logs' = CreateLog(logs, name, "=== Activity Log for Bus")
    /\ UNCHANGED <<conn, netDevices, netConnections, nextId, stack, calls,
                   origin, nsends, crashed, lifetime>>

\* An EndDevice constructed by the caller itself (the constructor is public):
\* the Network never hears of it.
NewEndDevice(name) ==
    /\ Idle
    /\ dev' = Append(dev, NewDevice("EndDevice", name))
    /\ logs' = CreateLog(logs, name, "=== Message Log for")
    /\ UNCHANGED <<conn, netDevices, netConnections, nextId, stack, calls,
                   origin, nsends, crashed, lifetime>>

\* ConnectDevices building the connection from dev1 to dev1
ConnectDevicesSameEnd(dev1, dev2) ==
    /\ Idle
    /\ dev1 \in EndDevices /\ dev2 \in EndDevices
    /\ LET c == Len(conn) + 1 IN
        /\ conn' = Append(conn, Connection(dev1, dev1, 0, 0))
        /\ dev' = AddConnection(AddConnection(dev, dev1, c), dev2, c)
        /\ netConnections' = Append(netConnections, c)
    /\ calls' = <<>> /\ origin' = <<>>
    /\ UNCHANGED <<netDevices, nextId, logs, stack, nsends, crashed, lifetime>>

ConnectDevices(dev1, dev2) ==
    /\ Idle
    /\ dev1 \in EndDevices /\ dev2 \in EndDevices
    /\ LET c == Len(conn) + 1 IN
        /\ conn' = Append(conn, Connection(dev1, dev2, 0, 0))
        /\ dev' = AddConnection(AddConnection(dev, dev1, c), dev2, c)
        /\ netConnections' = Append(netConnections, c)
    /\ calls' = <<>> /\ origin' = <<>>
    /\ UNCHANGED <<netDevices, nextId, logs, stack, nsends, crashed, lifetime>>

\* Network::connectToHub is defined after Hub::connectDevice, which it calls.

\* ---- Hub ----
\* Hub::connectDevice numbering the port by the length of the connection list,
\* as Bus::connectDevice does, instead of by nextPort
HubConnectDeviceBySize(h, d) ==
    /\ Idle
    /\ h \in Hubs /\ d \in DevIds
    /\ LET portNumber == Len(dev[h].connections)
           c == Len(conn) + 1
           hubSide == [dev EXCEPT ![h].nextPort = @ + 1,
                                  ![h].connections = Append(@, c)]
       IN
        /\ conn' = Append(conn, Connection(h, d, portNumber, 0))
        /\ dev' = AddConnection(hubSide, d, c)
        /\ logs' = LogMessage(logs, dev[h].name,
                              Line("Device connected on port", dev[d].name, portNumber, ""))
    /\ calls' = <<>> /\ origin' = <<>>
    /\ UNCHANGED <<netDevices, netConnections, nextId, stack, nsends, crashed,
                   lifetime>>

HubConnectDevice(h, d) ==
    /\ Idle
    /\ h \in Hubs /\ d \in DevIds
    /\ LET portNumber == dev[h].nextPort
           c == Len(conn) + 1
           hubSide == [dev EXCEPT ![h].nextPort = @ + 1,
                                  ![h].connections = Append(@, c)]
       IN
        /\ conn' = Append(conn, Connection(h, d, portNumber, 0))
        /\ dev' = AddConnection(hubSide, d, c)
        /\ logs' = LogMessage(logs, dev[h].name,
                              Line("Device connected on port", dev[d].name, portNumber, ""))
    /\ calls' = <<>> /\ origin' = <<>>
    /\ UNCHANGED <<netDevices, netConnections, nextId, stack, nsends, crashed,
                   lifetime>>

ConnectToHub(hub, device) ==
    /\ hub \in Hubs /\ device \in EndDevices
    /\ HubConnectDevice(hub, device)

Range(seq) == {seq[i] : i \in 1..Len(seq)}

\* Network::~Network: deletes what devices and connections hold, nothing else.
\* (No class declares a destructor, so deleting a device deletes no
\* connection; the delete goes through Device*, whose destructor is not
\* virtual, and releases the object's storage.)
DestroyNetwork ==
    /\ Idle
    /\ destroyed' = TRUE
    /\ deletedDevices' = deletedDevices \cup Range(netDevices)
    /\ deletedConnections' = deletedConnections \cup Range(netConnections)
    /\ UNCHANGED <<topology, logs, stack, calls, origin, nsends, crashed>>

\* ---- Bus ----
BusConnectDevice(b, d) ==
    /\ Idle
    /\ b \in Buses /\ d \in DevIds
    /\ LET c == Len(conn) + 1
           busSide == [dev EXCEPT ![b].connections = Append(@, c)]
           both == AddConnection(busSide, d, c)
       IN
        /\ conn' = Append(conn, Connection(b, d, Len(dev[b].connectedDevices), 0))
        /\ dev' = [both EXCEPT ![b].connectedDevices = Append(@, d)]
        /\ logs' = LogMessage(logs, dev[b].name,
                              Line("Device connected to bus", dev[d].name, NoPort, ""))
    /\ calls' = <<>> /\ origin' = <<>>
    /\ UNCHANGED <<netDevices, netConnections, nextId, stack, nsends, crashed,
                   lifetime>>

\* ---- the forwarding sweep ----
\* One frame per active loop: EndDevice::sendData ("send") or a repeater's
\* receiveData ("recv"); i is the 1-based index of the slot the loop is at.
Frame(kind, d, inPort, sender, data) ==
    [kind |-> kind, dev |-> d, i |-> 1, inPort |-> inPort, sender |-> sender,
     data |-> data]

Top == stack[Len(stack)]

\* What one loop iteration does: skip the slot, or call to->receiveData(data,
\* port, sender) over connection via; fwdPort is the port the repeater logs.
Slot(skip, to, port, sender, via, fwdPort) ==
    [skip |-> skip, to |-> to, port |-> port, sender |-> sender, via |-> via,
     fwdPort |-> fwdPort]

\* EndDeviceSlot calling receiveData(data, port) without the sender name
EndDeviceSlotNoSender(f) ==
    LET c == dev[f.dev].connections[f.i]
        receiver == GetOtherDevice(conn[c], f.dev)
    IN  IF receiver = NULL
        THEN Slot(TRUE, NULL, InvalidPort, "", c, NoPort)
        ELSE Slot(FALSE, receiver, GetPortNumber(conn[c], receiver), "", c, NoPort)

\* EndDeviceSlot sending over the first connection only
EndDeviceSlotFirstOnly(f) ==
    LET c == dev[f.dev].connections[f.i]
        receiver == GetOtherDevice(conn[c], f.dev)
    IN  IF receiver = NULL \/ f.i > 1
        THEN Slot(TRUE, NULL, InvalidPort, "", c, NoPort)
        ELSE Slot(FALSE, receiver, GetPortNumber(conn[c], receiver),
                  dev[f.dev].name, c, NoPort)

\* EndDevice::sendData, body of the loop over connections
EndDeviceSlot(f) ==
    LET c == dev[f.dev].connections[f.i]
        receiver == GetOtherDevice(conn[c], f.dev)
    IN  IF receiver = NULL
        THEN Slot(TRUE, NULL, InvalidPort, "", c, NoPort)
        ELSE Slot(FALSE, receiver, GetPortNumber(conn[c], receiver),
                  dev[f.dev].name, c, NoPort)

\* HubSlot without the "skip the incoming port" test
HubSlotNoSkip(f) ==
    LET c == dev[f.dev].connections[f.i]
        portNumber == GetPortNumber(conn[c], f.dev)
        otherDevice == GetOtherDevice(conn[c], f.dev)
    IN  IF otherDevice # NULL
        THEN Slot(FALSE, otherDevice, GetPortNumber(conn[c], otherDevice),
                  f.sender, c, portNumber)
        ELSE Slot(TRUE, NULL, InvalidPort, "", c, NoPort)

\* HubSlot handing the receiver the hub's port number instead of its own
HubSlotHubPort(f) ==
    LET c == dev[f.dev].connections[f.i]
        portNumber == GetPortNumber(conn[c], f.dev)
        otherDevice == GetOtherDevice(conn[c], f.dev)
    IN  IF portNumber # f.inPort /\ otherDevice # NULL
        THEN Slot(FALSE, otherDevice, portNumber, f.sender, c, portNumber)
        ELSE Slot(TRUE, NULL, InvalidPort, "", c, NoPort)

\* HubSlot skipping every slot of the device the payload came from
HubSlotSkipSource(f) ==
    LET c == dev[f.dev].connections[f.i]
        portNumber == GetPortNumber(conn[c], f.dev)
        otherDevice == GetOtherDevice(conn[c], f.dev)
        fromSource == \E j \in 1..Len(dev[f.dev].connections) :
                        LET cj == conn[dev[f.dev].connections[j]] IN
                          /\ GetPortNumber(cj, f.dev) = f.inPort
                          /\ GetOtherDevice(cj, f.dev) = otherDevice
    IN  IF ~fromSource /\ otherDevice # NULL
        THEN Slot(FALSE, otherDevice, GetPortNumber(conn[c], otherDevice),
                  f.sender, c, portNumber)
        ELSE Slot(TRUE, NULL, InvalidPort, "", c, NoPort)

\* Hub::receiveData, body of the loop over connections
HubSlot(f) ==
    LET c == dev[f.dev].connections[f.i]
        portNumber == GetPortNumber(conn[c], f.dev)
        otherDevice == GetOtherDevice(conn[c], f.dev)
    IN  IF portNumber # f.inPort /\ otherDevice # NULL
        THEN Slot(FALSE, otherDevice, GetPortNumber(conn[c], otherDevice),
                  f.sender, c, portNumber)
        ELSE Slot(TRUE, NULL, InvalidPort, "", c, NoPort)

\* BusSlot comparing the arrival port with the 1-based position
BusSlotOneBased(f) ==
    LET device == dev[f.dev].connectedDevices[f.i]
        c == dev[f.dev].connections[f.i]
    IN  IF f.i # f.inPort
        THEN Slot(FALSE, device, GetPortNumber(conn[c], device), f.sender, c, NoPort)
        ELSE Slot(TRUE, NULL, InvalidPort, "", c, NoPort)

\* BusSlot forwarding under the bus's own name
BusSlotOwnName(f) ==
    LET device == dev[f.dev].connectedDevices[f.i]
        c == dev[f.dev].connections[f.i]
    IN  IF f.i - 1 # f.inPort
        THEN Slot(FALSE, device, GetPortNumber(conn[c], device), dev[f.dev].name,
                  c, NoPort)
        ELSE Slot(TRUE, NULL, InvalidPort, "", c, NoPort)

\* Bus::receiveData, body of the loop over connectedDevices (i is 0-based there)
BusSlot(f) ==
    LET device == dev[f.dev].connectedDevices[f.i]
        c == dev[f.dev].connections[f.i]
    IN  IF f.i - 1 # f.inPort
        THEN Slot(FALSE, device, GetPortNumber(conn[c], device), f.sender, c, NoPort)
        ELSE Slot(TRUE, NULL, InvalidPort, "", c, NoPort)

SlotCount(f) ==
    IF dev[f.dev].kind = "Bus" THEN Len(dev[f.dev].connectedDevices)
    ELSE Len(dev[f.dev].connections)

CurrentSlot(f) ==
    IF f.kind = "send" THEN EndDeviceSlot(f)
    ELSE IF dev[f.dev].kind = "Hub" THEN HubSlot(f)
    ELSE BusSlot(f)

\* The line receiveData writes first: an EndDevice omits an empty sender name,
\* a repeater prints "unknown" for it.
ReceivedLine(kind, sender, port, data) ==
    IF kind = "EndDevice"
    THEN (IF sender # "" THEN Line("RECEIVED from", sender, port, data)
          ELSE Line("RECEIVED", "", port, data))
    ELSE Line("RECEIVED from", IF sender = "" THEN "unknown" ELSE sender, port, data)

\* The line a repeater writes after the forwarded call has returned
ForwardedLine(f, s) ==
    IF dev[f.dev].kind = "Hub"
    THEN Line("FORWARDED to", dev[s.to].name, s.fwdPort, f.data)
    ELSE Line("FORWARDED to", dev[s.to].name, NoPort, f.data)

AfterCall(lg, f, s) ==
    IF f.kind = "recv" THEN LogMessage(lg, dev[f.dev].name, ForwardedLine(f, s))
    ELSE lg

\* The record of one receiveData invocation: who called (from, while handling
\* a payload that arrived on inPort, at call depth depth), on whom (to), over
\* which connection (via), with which arguments (data, port, sender).
Call(f, s) ==
    [from |-> f.dev, inPort |-> f.inPort, depth |-> Len(stack), to |-> s.to,
     port |-> s.port, sender |-> s.sender, data |-> f.data, via |-> s.via]

\* Advance leaving the loop after its first iteration
AdvanceToEnd(stk) ==
    [stk EXCEPT ![Len(stk)].i =
        IF dev[stk[Len(stk)].dev].kind = "Bus"
        THEN Len(dev[stk[Len(stk)].dev].connectedDevices) + 1
        ELSE Len(dev[stk[Len(stk)].dev].connections) + 1]

\* i++ of the loop on top of the stack
Advance(stk) == [stk EXCEPT ![Len(stk)].i = @ + 1]

\* HasNoConnections with the test left out
NeverEmpty(d) == FALSE

\* connections.empty()
HasNoConnections(d) == dev[d].connections = <<>>

\* EndDevice::sendData, up to the loop
SendData(d, data) ==
    /\ Idle
    /\ d \in EndDevices
    /\ nsends' = nsends + 1
    /\ origin' = <<d, data>>
    /\ calls' = <<>>
    /\ IF HasNoConnections(d)
       THEN /\ logs' = LogMessage(logs, dev[d].name,
                          Line("ERROR: No connections available to send data", "", NoPort, data))
            /\ stack' = <<>>
       ELSE /\ logs' = LogMessage(logs, dev[d].name, Line("SENDING", "", NoPort, data))
            /\ stack' = <<Frame("send", d, NoPort, dev[d].name, data)>>
    /\ UNCHANGED <<topology, crashed, lifetime>>

\* HubSendData broadcasting the payload to every attached device
HubSendDataBroadcast(h, data) ==
    /\ Idle
    /\ h \in Hubs
    /\ nsends' = nsends + 1
    /\ origin' = <<h, data>>
    /\ calls' = <<>>
    /\ logs' = LogMessage(logs, dev[h].name, Line("SENDING", "", NoPort, data))
    /\ stack' = <<[kind |-> "recv", dev |-> h, i |-> 1, inPort |-> InvalidPort,
                   sender |-> dev[h].name, data |-> data]>>
    /\ UNCHANGED <<topology, crashed, lifetime>>

\* Hub::sendData
HubSendData(h, data) ==
    /\ Idle
    /\ h \in Hubs
    /\ nsends' = nsends + 1
    /\ origin' = <<h, data>>
    /\ calls' = <<>>
    /\ logs' = LogMessage(logs, dev[h].name,
                   Line("ERROR: Hubs don't initiate data sending", "", NoPort, data))
    /\ UNCHANGED <<topology, stack, crashed, lifetime>>

\* Bus::sendData
BusSendData(b, data) ==
    /\ Idle
    /\ b \in Buses
    /\ nsends' = nsends + 1
    /\ origin' = <<b, data>>
    /\ calls' = <<>>
    /\ logs' = LogMessage(logs, dev[b].name,
                   Line("ERROR: Buses don't initiate data sending", "", NoPort, data))
    /\ UNCHANGED <<topology, stack, crashed, lifetime>>

\* Forward with an EndDevice::receiveData that passes the payload on over the
\* receiving device's own connections, as its sendData would
ForwardEndDeviceRelays ==
    /\ stack # <<>> /\ ~crashed
    /\ Top.i <= SlotCount(Top)
    /\ LET f == Top
           s == CurrentSlot(f)
       IN
        IF s.skip
        THEN /\ stack' = Advance(stack)
             /\ UNCHANGED <<logs, calls, crashed>>
        ELSE IF Len(stack) >= MaxDepth
        THEN /\ crashed' = TRUE
             /\ UNCHANGED <<logs, calls, stack>>
        ELSE /\ logs' = LogMessage(logs, dev[s.to].name,
                            ReceivedLine(dev[s.to].kind, s.sender, s.port, f.data))
             /\ calls' = Append(calls, Call(f, s))
             /\ stack' = Append(stack,
                    Frame(IF dev[s.to].kind = "EndDevice" THEN "send" ELSE "recv",
                          s.to, s.port, s.sender, f.data))
             /\ UNCHANGED crashed
    /\ UNCHANGED <<topology, origin, nsends, lifetime>>

\* One iteration of the loop on top of the stack.  A call to an EndDevice
\* (EndDevice::receiveData, which only logs) returns within the step; a call to
\* a repeater pushes its frame; a call beyond MaxDepth exhausts the stack.
Forward ==
    /\ stack # <<>> /\ ~crashed
    /\ Top.i <= SlotCount(Top)
    /\ LET f == Top
           s == CurrentSlot(f)
       IN
        IF s.skip
        THEN /\ stack' = Advance(stack)
             /\ UNCHANGED <<logs, calls, crashed>>
        ELSE IF dev[s.to].kind = "EndDevice"
        THEN /\ logs' = AfterCall(LogMessage(logs, dev[s.to].name,
                            ReceivedLine("EndDevice", s.sender, s.port, f.data)), f, s)
             /\ calls' = Append(calls, Call(f, s))
             /\ stack' = Advance(stack)
             /\ UNCHANGED crashed
        ELSE IF Len(stack) >= MaxDepth
        THEN /\ crashed' = TRUE
             /\ UNCHANGED <<logs, calls, stack>>
        ELSE /\ logs' = LogMessage(logs, dev[s.to].name,
                            ReceivedLine(dev[s.to].kind, s.sender, s.port, f.data))
             /\ calls' = Append(calls, Call(f, s))
             /\ stack' = Append(stack, Frame("recv", s.to, s.port, s.sender, f.data))
             /\ UNCHANGED crashed
    /\ UNCHANGED <<topology, origin, nsends, lifetime>>

\* The loop on top of the stack is over: the call returns to its caller, which
\* logs the forward (a repeater) and moves to its next slot.
Return ==
    /\ stack # <<>> /\ ~crashed
    /\ Top.i > SlotCount(Top)
    /\ LET rest == SubSeq(stack, 1, Len(stack) - 1) IN
        IF rest = <<>>
        THEN /\ stack' = <<>>
             /\ UNCHANGED logs
        ELSE LET f == rest[Len(rest)] IN
             /\ logs' = AfterCall(logs, f, CurrentSlot(f))
             /\ stack' = Advance(rest)
    /\ UNCHANGED <<topology, calls, origin, nsends, crashed, lifetime>>

Init ==
    /\ dev = <<>>
    /\ conn = <<>>
    /\ netDevices = <<>>
    /\ netConnections = <<>>
    /\ nextId = 1
    /\ logs = <<>>
    /\ stack = <<>>
    /\ calls = <<>>
    /\ origin = <<>>
    /\ nsends = 0
    /\ crashed = FALSE
    /\ destroyed = FALSE
    /\ deletedDevices = {}
    /\ deletedConnections = {}

\* ---- the whole interface, any order of calls ----
Next ==
    \/ \E name \in NameInputs : Len(dev) < MaxDevices /\ CreateEndDevice(name)
    \/ \E name \in NameInputs : Len(dev) < MaxDevices /\ CreateHub(name)
    \/ \E name \in BusNames : Len(dev) < MaxDevices /\ CreateBus(name)
    \/ \E d1 \in DevIds, d2 \in DevIds : Len(conn) < MaxConns /\ ConnectDevices(d1, d2)
    \/ \E h \in DevIds, d \in DevIds : Len(conn) < MaxConns /\ ConnectToHub(h, d)
    \/ \E h \in DevIds, d \in DevIds : Len(conn) < MaxConns /\ HubConnectDevice(h, d)
    \/ \E b \in DevIds, d \in DevIds : Len(conn) < MaxConns /\ BusConnectDevice(b, d)
    \/ \E d \in DevIds, data \in Payloads : nsends < MaxSends /\ SendData(d, data)
    \/ \E h \in DevIds, data \in Payloads : nsends < MaxSends /\ HubSendData(h, data)
    \/ \E b \in DevIds, data \in Payloads : nsends < MaxSends /\ BusSendData(b, data)
    \/ Forward
    \/ Return

Spec == Init /\ [][Next]_vars

\* ---- one hub with end devices around it (Network::runSimpleTest,
\* Network::runStressTest: a hub named by the caller, end devices attached
\* through connectToHub, then sends) ----
NextStar ==
    \/ Hubs = {} /\ CreateHub("MainHub")
    \/ Cardinality(EndDevices) < StarDevices /\ CreateEndDevice("")
    \/ \E h \in DevIds, d \in DevIds : Len(conn) < StarConns /\ ConnectToHub(h, d)
    \/ \E d \in DevIds : nsends < StarSends /\ SendData(d, "hi")
    \/ Forward
    \/ Return

SpecStar == Init /\ [][NextStar]_vars

\* ---- end devices joined by direct links only ----
NextDirect ==
    \/ \E name \in NameInputs : Len(dev) < DirectDevices /\ CreateEndDevice(name)
    \/ \E d1 \in DevIds, d2 \in DevIds : Len(conn) < DirectConns /\ ConnectDevices(d1, d2)
    \/ \E d \in DevIds, data \in Payloads : nsends < DirectSends /\ SendData(d, data)
    \/ Forward
    \/ Return

SpecDirect == Init /\ [][NextDirect]_vars

\* ---- the life of one Network: devices made through it and beside it,
\* connected through it, used, and the Network destroyed ----
NextLife ==
    \/ \E name \in NameInputs : Len(dev) < LifeDevices /\ CreateEndDevice(name)
    \/ \E name \in NameInputs : Len(dev) < LifeDevices /\ CreateHub(name)
    \/ \E name \in NameInputs \ {""} : Len(dev) < LifeDevices /\ NewEndDevice(name)
    \/ \E d1 \in DevIds, d2 \in DevIds : Len(conn) < LifeConns /\ ConnectDevices(d1, d2)
    \/ \E h \in DevIds, d \in DevIds : Len(conn) < LifeConns /\ ConnectToHub(h, d)
    \/ \E d \in DevIds, data \in Payloads : nsends < LifeSends /\ SendData(d, data)
    \/ Forward
    \/ Return
    \/ DestroyNetwork

SpecLife == Init /\ [][NextLife]_vars

\* ---- repeaters attached to repeaters, end devices at the leaves ----
NextTree ==
    \/ Cardinality(EndDevices) < TreeEndDevices /\ CreateEndDevice("")
    \/ Cardinality(Hubs \cup Buses) < TreeRepeaters /\ CreateHub("")
    \/ Cardinality(Hubs \cup Buses) < TreeRepeaters /\ CreateBus("Bus")
    \/ \E h \in DevIds, d \in DevIds : Len(conn) < TreeConns /\ HubConnectDevice(h, d)
    \/ \E b \in DevIds, d \in DevIds : Len(conn) < TreeConns /\ BusConnectDevice(b, d)
    \/ \E d \in DevIds : nsends < TreeSends /\ SendData(d, "a")
    \/ Forward
    \/ Return

SpecTree == Init /\ [][NextTree]_vars

\* ---- one bus as the backbone: hubs attach the bus or are attached by it,
\* end devices are attached by either.  The devices are made in one order
\* (the bus, the hubs, the end devices); the attach operations come in any. ----
NextBackbone ==
    \/ dev = <<>> /\ CreateBus("Bus")
    \/ Buses # {} /\ EndDevices = {} /\ Cardinality(Hubs) < BackboneHubs /\ CreateHub("")
    \/ Buses # {} /\ Cardinality(EndDevices) < BackboneEndDevices /\ CreateEndDevice("")
    \/ \E h \in DevIds, d \in Buses \cup EndDevices :
          Len(conn) < BackboneConns /\ HubConnectDevice(h, d)
    \/ \E b \in DevIds, d \in Hubs \cup EndDevices :
          Len(conn) < BackboneConns /\ BusConnectDevice(b, d)
    \/ \E d \in DevIds : nsends < BackboneSends /\ SendData(d, "a")
    \/ Forward
    \/ Return

SpecBackbone == Init /\ [][NextBackbone]_vars

\* ---- one shared medium, a hub or a bus, made first; end devices attached
\* through the medium's own connectDevice ----
NextMedium ==
    \/ dev = <<>> /\ CreateHub("Hub")
    \/ dev = <<>> /\ CreateBus("Bus")
    \/ dev # <<>> /\ Cardinality(EndDevices) < MediumEndDevices /\ CreateEndDevice("")
    \/ \E h \in DevIds, d \in EndDevices :
          Len(conn) < MediumConns /\ HubConnectDevice(h, d)
    \/ \E b \in DevIds, d \in EndDevices :
          Len(conn) < MediumConns /\ BusConnectDevice(b, d)
    \/ \E d \in DevIds, data \in Payloads : nsends < MediumSends /\ SendData(d, data)
    \/ Forward
    \/ Return

SpecMedium == Init /\ [][NextMedium]_vars

\* ---- end devices joined by direct links and through at most one hub ----
NextMesh ==
    \/ dev = <<>> /\ CreateHub("")
    \/ Len(dev) < MeshDevices /\ CreateEndDevice("")
    \/ \E d1 \in DevIds, d2 \in DevIds : Len(conn) < MeshConns /\ ConnectDevices(d1, d2)
    \/ \E h \in DevIds, d \in DevIds : Len(conn) < MeshConns /\ ConnectToHub(h, d)
    \/ \E d \in DevIds : nsends < MeshSends /\ SendData(d, "a")
    \/ Forward
    \/ Return

SpecMesh == Init /\ [][NextMesh]_vars

\* ---- building a topology: every way of joining devices, repeaters attached
\* to repeaters included, no traffic; hubs are created before buses and buses
\* before end devices ----
NextAttach ==
    \/ Len(dev) < AttachDevices /\ CreateEndDevice("")
    \/ Len(dev) < AttachDevices /\ Buses \cup EndDevices = {} /\ CreateHub("")
    \/ Len(dev) < AttachDevices /\ EndDevices = {} /\ CreateBus("Bus")
    \/ \E d1 \in DevIds, d2 \in DevIds : Len(conn) < AttachConns /\ ConnectDevices(d1, d2)
    \/ \E h \in DevIds, d \in DevIds : Len(conn) < AttachConns /\ HubConnectDevice(h, d)
    \/ \E b \in DevIds, d \in DevIds : Len(conn) < AttachConns /\ BusConnectDevice(b, d)

SpecAttach == Init /\ [][NextAttach]_vars

\* ======================= properties =======================
\* The latest sendData has returned and no connection was added since.
Done == Idle /\ origin # <<>>

CallsTo(d) == {k \in 1..Len(calls) : calls[k].to = d}

\* The calls of the latest sweep made on end devices, in order
Deliveries == SelectSeq(calls, LAMBDA x : x.to \in EndDevices)

\* Hub h has only connections it made itself, each to an end device that has
\* no other connection: n end devices attached once each at ports 0..n-1.
AttachedOnce(h) ==
    \A i \in 1..Len(dev[h].connections) :
        LET c == dev[h].connections[i] IN
            /\ conn[c].deviceA = h
            /\ conn[c].portA = i - 1
            /\ conn[c].deviceB \in EndDevices
            /\ dev[conn[c].deviceB].connections = <<c>>

\* The device attached by the (p+1)-th attach of hub h, i.e. at hub port p
AtPort(h, p) == conn[dev[h].connections[p + 1]].deviceB

\* C1: around a hub whose n end devices are attached once each, a send by the
\* device at port k makes the hub call receiveData exactly once on the device
\* at every other port, over that port's connection, and never on the sender.
C1_BroadcastExclusion ==
    \A h \in Hubs :
        (Done /\ AttachedOnce(h) /\ origin[1] \in EndDevices
              /\ \E i \in 1..Len(dev[h].connections) : AtPort(h, i - 1) = origin[1])
        => \A i \in 1..Len(dev[h].connections) :
              LET e == AtPort(h, i - 1) IN
                IF e = origin[1]
                THEN CallsTo(e) = {}
                ELSE /\ Cardinality(CallsTo(e)) = 1
                     /\ \A k \in CallsTo(e) :
                          /\ calls[k].from = h
                          /\ calls[k].via = dev[h].connections[i]
                          /\ calls[k].data = origin[2]

\* C1 witness: three devices attached once each, the one at port 1 has sent,
\* the hub and the two others were called.
C1_Witness ==
    \E h \in Hubs :
        /\ Done /\ AttachedOnce(h)
        /\ Len(dev[h].connections) = 3
        /\ origin[1] = AtPort(h, 1)
        /\ Len(calls) = 3
        /\ CallsTo(AtPort(h, 0)) # {} /\ CallsTo(AtPort(h, 2)) # {}

\* C3 as stated: an end device attached at hub port j is called with
\* arrival port j.
C3_ArrivalPortIsHubPort ==
    \A k \in 1..Len(calls) :
        (calls[k].from \in Hubs /\ calls[k].to \in EndDevices
            /\ conn[calls[k].via].deviceA = calls[k].from)
        => calls[k].port = conn[calls[k].via].portA

\* C3 amended: a hub calls an end device it attached with arrival port 0, the
\* device-side port of every hub attachment, and with the sender's name; with
\* PC1, PC2, PC3 attached in that order a send by PC1 is delivered to PC2 and
\* then to PC3, once each, both with arrival port 0 and sender name "PC1".
C3_ArrivalPortIsDeviceSide ==
    /\ \A k \in 1..Len(calls) :
        (calls[k].from \in Hubs /\ calls[k].to \in EndDevices
            /\ conn[calls[k].via].deviceA = calls[k].from)
        => /\ calls[k].port = 0
           /\ calls[k].sender = dev[origin[1]].name
    /\ \A h \in Hubs :
        (Done /\ AttachedOnce(h) /\ Len(dev[h].connections) = 3
              /\ origin[1] = AtPort(h, 0))
        => /\ Len(Deliveries) = 2
           /\ \A j \in 1..2 :
                /\ Deliveries[j].to = AtPort(h, j)
                /\ Deliveries[j].port = 0
                /\ Deliveries[j].sender = dev[AtPort(h, 0)].name
                /\ Deliveries[j].data = origin[2]

\* C3 witness: PC1, PC2, PC3 at hub ports 0, 1, 2; PC1 has sent.
C3_Witness ==
    \E h \in Hubs :
        /\ Done /\ AttachedOnce(h) /\ Len(dev[h].connections) = 3
        /\ origin[1] = AtPort(h, 0)
        /\ \A j \in 0..2 : dev[AtPort(h, j)].name = "PC" \o ToString(j + 1)
        /\ Len(Deliveries) = 2

\* C7: two attachments of one end device to a hub have distinct hub ports p
\* and q, and when that device sends, the payload that reaches the hub on
\* port p is forwarded over the attachment with port q back to the device.
C7_ReattachForwards ==
    \A h \in Hubs : \A i, j \in 1..Len(dev[h].connections) :
        LET ci == dev[h].connections[i]
            cj == dev[h].connections[j]
        IN  (i # j /\ conn[ci].deviceA = h /\ conn[cj].deviceA = h
                 /\ conn[ci].deviceB = conn[cj].deviceB
                 /\ conn[ci].deviceB \in EndDevices)
            => /\ conn[ci].portA # conn[cj].portA
               /\ (Done /\ origin[1] = conn[ci].deviceB)
                  => \E k \in 1..Len(calls) :
                        /\ calls[k].from = h
                        /\ calls[k].inPort = conn[ci].portA
                        /\ calls[k].via = cj
                        /\ calls[k].to = origin[1]
                        /\ calls[k].data = origin[2]

\* C7 witness: a device attached twice has sent and was called twice itself.
C7_Witness ==
    \E h \in Hubs : \E i, j \in 1..Len(dev[h].connections) :
        /\ i # j
        /\ AtPort(h, i - 1) = AtPort(h, j - 1)
        /\ Done /\ origin[1] = AtPort(h, i - 1)
        /\ Cardinality(CallsTo(origin[1])) = 2

\* ---- the connection graph ----
Ends(c) == {conn[c].deviceA, conn[c].deviceB}

\* Devices reachable from the set S over the connections E, expanding only
\* from the devices in Through
RECURSIVE Reach(_, _, _)
Reach(S, E, Through) ==
    LET T == S \cup {x \in DevIds : \E c \in E : \E y \in S \cap Through :
                        Ends(c) = {x, y}}
    IN  IF T = S THEN S ELSE Reach(T, E, Through)

\* No cycle in the connection graph: no connection joins a device to itself
\* or two devices that are connected without it.
Acyclic ==
    \A c \in ConnIds :
        /\ conn[c].deviceA # conn[c].deviceB
        /\ conn[c].deviceB \notin Reach({conn[c].deviceA}, ConnIds \ {c}, DevIds)

\* End devices other than o on a path of connections from o through repeaters
ReachableEndDevices(o) ==
    (Reach({o}, ConnIds, {o} \cup Hubs \cup Buses) \cap EndDevices) \ {o}

\* C2: every receiveData call that reaches an end device through one or more
\* repeaters carries the name of the end device that sent, never an empty name
\* or a repeater's, and that name is what the receiver's log records.
C2_SenderAttribution ==
    \A k \in 1..Len(calls) :
        (calls[k].to \in EndDevices /\ calls[k].depth >= 2)
        => LET a == dev[origin[1]].name IN
            /\ calls[k].sender = a
            /\ a # "" => calls[k].sender # ""
            /\ \A r \in Hubs \cup Buses : dev[r].name # a => calls[k].sender # dev[r].name
            /\ \E i \in 1..Len(logs[dev[calls[k].to].name]) :
                  logs[dev[calls[k].to].name][i] =
                      Line("RECEIVED from", a, calls[k].port, calls[k].data)

\* C2 witness: a payload reached another end device through two repeaters.
C2_Witness ==
    \E k \in 1..Len(calls) :
        /\ calls[k].to \in EndDevices
        /\ calls[k].to # origin[1]
        /\ calls[k].depth >= 3
        /\ calls[k].sender = dev[origin[1]].name

\* C6 as stated: on an acyclic topology, once the send has returned every
\* other end device reachable through repeaters has been called.
C6_AllReachableReceive ==
    (Done /\ origin[1] \in EndDevices /\ Acyclic)
    => \A e \in ReachableEndDevices(origin[1]) : CallsTo(e) # {}

\* The port a connection records for endpoint d
EndpointPort(c, d) == IF conn[c].deviceA = d THEN conn[c].portA ELSE conn[c].portB

DirectLinks == {netConnections[i] : i \in 1..Len(netConnections)}

\* C4: over a direct connection between two end devices A and B the sender
\* calls the other endpoint, with the port recorded for that endpoint and the
\* sender's name; once a send by either has returned the other was called so.
C4_DirectLinkSymmetry ==
    \A c \in DirectLinks :
        conn[c].deviceA # conn[c].deviceB
        => /\ \A k \in 1..Len(calls) :
                (calls[k].via = c /\ calls[k].depth = 1)
                => /\ calls[k].from = origin[1]
                   /\ Ends(c) = {calls[k].from, calls[k].to}
                   /\ calls[k].port = EndpointPort(c, calls[k].to)
                   /\ calls[k].sender = dev[calls[k].from].name
           /\ (Done /\ origin[1] \in Ends(c))
              => \E k \in 1..Len(calls) :
                    /\ calls[k].via = c
                    /\ calls[k].from = origin[1]
                    /\ Ends(c) = {origin[1], calls[k].to}
                    /\ calls[k].port = EndpointPort(c, calls[k].to)
                    /\ calls[k].sender = dev[origin[1]].name
                    /\ calls[k].data = origin[2]

\* C4 witness: the second endpoint of a direct connection has sent and the
\* first endpoint was called.
C4_Witness ==
    \E c \in DirectLinks :
        /\ conn[c].deviceA # conn[c].deviceB
        /\ Done /\ origin[1] = conn[c].deviceB
        /\ \E k \in 1..Len(calls) : calls[k].via = c /\ calls[k].to = conn[c].deviceA

\* ---- receive history: the RECEIVED lines of a device's log file ----
IsReceived(l) == l.tag \in {"RECEIVED from", "RECEIVED"}
IsSending(l) == l.tag = "SENDING"
ReceiveHistory(d) == SelectSeq(logs[dev[d].name], IsReceived)
Sent(d) == SelectSeq(logs[dev[d].name], IsSending)

\* p and q are joined by one direct connection, have no other connection, and
\* share their log files with no other device.
JoinedOnly(p, q) ==
    /\ p # q
    /\ \E c \in DirectLinks : dev[p].connections = <<c>> /\ dev[q].connections = <<c>>
    /\ \A d \in DevIds \ {p} : dev[d].name # dev[p].name
    /\ \A d \in DevIds \ {q} : dev[d].name # dev[q].name

\* C5: with two end devices joined only by one direct connection, between
\* sends the receive history of each is the sequence of payloads the other has
\* sent, in order, each under the other's name and on port 0.
C5_DirectHistories ==
    \A p, q \in EndDevices :
        (Idle /\ JoinedOnly(p, q))
        => /\ Len(ReceiveHistory(p)) = Len(Sent(q))
           /\ \A i \in 1..Len(Sent(q)) :
                ReceiveHistory(p)[i] =
                    Line("RECEIVED from", dev[q].name,
                         EndpointPort(dev[p].connections[1], p), Sent(q)[i].data)

\* C5 witness: PC1 has sent "a", then PC2 has sent "b"; each history holds
\* the other's payload.
C5_Witness ==
    \E p, q \in EndDevices :
        /\ Idle /\ JoinedOnly(p, q)
        /\ dev[p].name = "PC1" /\ dev[q].name = "PC2"
        /\ origin = <<q, "b">>
        /\ ReceiveHistory(p) = <<Line("RECEIVED from", "PC2", 0, "b")>>
        /\ ReceiveHistory(q) = <<Line("RECEIVED from", "PC1", 0, "a")>>

\* Every log file other than n is as it was
OtherLogsUnchanged(n) ==
    /\ DOMAIN logs' = DOMAIN logs
    /\ \A m \in DOMAIN logs : m # n => logs'[m] = logs[m]

\* C8: sendData on an end device without connections writes the "no
\* connections" error to its log and returns: no receiveData call, no change
\* to devices, connections, attachment lists or other log files.
C8_NoConnectionSend ==
    [][(nsends' = nsends + 1 /\ origin'[1] \in EndDevices
            /\ dev[origin'[1]].connections = <<>>)
       => /\ logs'[dev[origin'[1]].name] =
                Append(logs[dev[origin'[1]].name],
                       Line("ERROR: No connections available to send data", "",
                            NoPort, origin'[2]))
          /\ OtherLogsUnchanged(dev[origin'[1]].name)
          /\ calls' = <<>> /\ stack' = <<>> /\ ~crashed'
          /\ UNCHANGED topology]_vars

\* C8 witness: an end device without connections has sent while the network
\* held a connection.
C8_Witness ==
    /\ Done /\ origin[1] \in EndDevices
    /\ dev[origin[1]].connections = <<>>
    /\ conn # <<>>
    /\ logs[dev[origin[1]].name][Len(logs[dev[origin[1]].name])].tag =
          "ERROR: No connections available to send data"

\* C9: sendData on a hub or a bus writes the "don't initiate" error to the
\* repeater's log and does nothing else: no receiveData call whatever is
\* attached, no change to the topology or to any receive history.
C9_RepeaterSendIsNoOp ==
    [][(nsends' = nsends + 1 /\ origin'[1] \in Hubs \cup Buses)
       => /\ logs'[dev[origin'[1]].name] =
                Append(logs[dev[origin'[1]].name],
                       Line(IF origin'[1] \in Hubs
                            THEN "ERROR: Hubs don't initiate data sending"
                            ELSE "ERROR: Buses don't initiate data sending",
                            "", NoPort, origin'[2]))
          /\ OtherLogsUnchanged(dev[origin'[1]].name)
          /\ \A m \in DOMAIN logs :
                SelectSeq(logs'[m], IsReceived) = SelectSeq(logs[m], IsReceived)
          /\ calls' = <<>> /\ stack' = <<>> /\ ~crashed'
          /\ UNCHANGED topology]_vars

\* C9 witness: a hub with an attached device was asked to send.
C9_Witness ==
    /\ Done /\ origin[1] \in Hubs
    /\ dev[origin[1]].connections # <<>>
    /\ calls = <<>>
    /\ logs[dev[origin[1]].name][Len(logs[dev[origin[1]].name])].tag =
          "ERROR: Hubs don't initiate data sending"

\* C10 as stated: no two connections of a device's attachment list record the
\* same port number for that device.
C10_UniquePortsPerDevice ==
    \A d \in DevIds : \A i, j \in 1..Len(dev[d].connections) :
        dev[d].connections[i] # dev[d].connections[j]
        => GetPortNumber(conn[dev[d].connections[i]], d)
              # GetPortNumber(conn[dev[d].connections[j]], d)

\* C11 as stated: every connection joins two distinct endpoints; none has the
\* same device with the same port at both of its ends.
C11_DistinctEndpoints ==
    \A c \in ConnIds :
        ~(conn[c].deviceA = conn[c].deviceB /\ conn[c].portA = conn[c].portB)

\* C12 as stated: every connection in a device's attachment list is in the
\* Network's connections and both of its endpoints are in the Network's devices.
C12_AttachedConnectionsOwned ==
    \A d \in DevIds : \A i \in 1..Len(dev[d].connections) :
        LET c == dev[d].connections[i] IN
          /\ c \in Range(netConnections)
          /\ conn[c].deviceA \in Range(netDevices)
          /\ conn[c].deviceB \in Range(netDevices)

\* C13 as stated: once the Network is destroyed, every device created through
\* it and every connection created through it has been deleted (in SpecLife
\* every connection is made by connectDevices or connectToHub).
C13_NothingOutlivesNetwork ==
    destroyed => /\ Range(netDevices) \subseteq deletedDevices
                 /\ ConnIds \subseteq deletedConnections

\* C14 as stated: a connect call naming a device that is not in the Network's
\* devices fails and changes nothing, so no step adds a connection with such an
\* endpoint.
C14_UnknownDeviceRejected ==
    [][\A c \in (1..Len(conn')) \ ConnIds :
          {conn'[c].deviceA, conn'[c].deviceB} \subseteq Range(netDevices)]_vars

\* C15 as stated: resolving the port (or the other endpoint) of a connection
\* for a device that is not one of its endpoints fails at once, so no
\* receiveData call is ever made with what such a resolution returned.
C15_NonEndpointFailsFast ==
    \A k \in 1..Len(calls) :
        /\ calls[k].to \in Ends(calls[k].via)
        /\ calls[k].port # InvalidPort

\* Repeater r lies on a cycle of connections through two or more repeaters:
\* some connection joins r to another repeater that also reaches r without it,
\* through repeaters only.
OnRepeaterCycle(r) ==
    /\ r \in Hubs \cup Buses
    /\ \E c \in ConnIds : \E r2 \in (Hubs \cup Buses) \ {r} :
          /\ Ends(c) = {r, r2}
          /\ r \in Reach({r2}, ConnIds \ {c}, Hubs \cup Buses)

\* C16 as stated: once a payload sent by an end device has entered a cycle
\* through two or more repeaters, the send never returns.
C16_CycleNeverCompletes ==
    \A k \in 1..Len(calls) :
        (origin[1] \in EndDevices /\ OnRepeaterCycle(calls[k].to)) => ~Idle

\* A repeater's receiveData is active twice for the same arrival port.  The
\* payload, the sender and the topology are the same too, so the inner call
\* repeats the outer one and the recursion goes on until the stack overflows.
Reentered ==
    \E i, j \in 1..Len(stack) :
        /\ i < j /\ stack[i].kind = "recv" /\ stack[j].kind = "recv"
        /\ stack[i].dev = stack[j].dev /\ stack[i].inPort = stack[j].inPort

\* C17 as stated: on a topology without a cycle every send by an end device
\* terminates, so its sweep never recurses without end into stack overflow.
C17_AcyclicSendTerminates ==
    (Acyclic /\ origin # <<>> /\ origin[1] \in EndDevices)
    => ~(Reentered /\ crashed)

\* ---- what a shared medium delivers, by the order of its attach operations
\* only (Device::connections of the medium and of the sender) ----
AttachedAt(r, i) == conn[dev[r].connections[i]].deviceB

PositionOf(r, c) == CHOOSE i \in 1..Len(dev[r].connections) : dev[r].connections[i] = c

\* The deliveries of one pass over the attach positions from..n of r, for a
\* payload that came in at position j
RECURSIVE Round(_, _, _, _, _)
Round(r, from, j, name, data) ==
    IF from > Len(dev[r].connections) THEN <<>>
    ELSE (IF from = j THEN <<>> ELSE << <<AttachedAt(r, from), 0, name, data>> >>)
         \o Round(r, from + 1, j, name, data)

\* One pass per connection of the sender o, from the k-th on
RECURSIVE Expected(_, _, _, _)
Expected(r, o, k, data) ==
    IF k > Len(dev[o].connections) THEN <<>>
    ELSE Round(r, 1, PositionOf(r, dev[o].connections[k]), dev[o].name, data)
         \o Expected(r, o, k + 1, data)

Delivered ==
    [k \in 1..Len(Deliveries) |->
        <<Deliveries[k].to, Deliveries[k].port, Deliveries[k].sender, Deliveries[k].data>>]

\* C18: around a hub and around a bus alike, the deliveries of a send (receiving
\* device, arrival port, sender name, payload, in order) are the same function
\* of the sequence of attach operations, the sender and the payload; the same
\* attach operations and sends therefore give the same deliveries on both.
C18_HubBusEquivalent ==
    \A r \in Hubs \cup Buses :
        (Done /\ origin[1] \in EndDevices)
        => Delivered = Expected(r, origin[1], 1, origin[2])

\* C18 witness: around a bus, an end device attached twice has sent and the
\* payload was delivered four times, to itself and to the other device.
C18_Witness ==
    \E b \in Buses :
        /\ Done /\ origin[1] \in EndDevices
        /\ Len(dev[origin[1]].connections) = 2
        /\ Len(Delivered) = 4
        /\ \E k \in 1..4 : Delivered[k][1] # origin[1]

IsPrefix(s, t) == Len(s) <= Len(t) /\ SubSeq(t, 1, Len(s)) = s

\* C19 as stated: the receive history of an end device is append-only: no
\* operation (creating a device under any name, connecting, sending) removes,
\* reorders or changes a record it holds, and a receive adds exactly one.
C19_HistoryAppendOnly ==
    [][\A d \in EndDevices :
          /\ IsPrefix(ReceiveHistory(d), SelectSeq(logs'[dev[d].name], IsReceived))
          /\ (Len(calls') = Len(calls) + 1 /\ calls'[Len(calls')].to = d)
             => SelectSeq(logs'[dev[d].name], IsReceived) =
                  Append(ReceiveHistory(d),
                         ReceivedLine("EndDevice", calls'[Len(calls')].sender,
                                      calls'[Len(calls')].port, calls'[Len(calls')].data))]_vars

\* The step has named the device it created as the claim says: from the
\* counter under the prefix when no name was given, a name no earlier value of
\* the counter can have produced, and the counter moves on by one; the literal
\* name otherwise, and the counter stays.
Named(prefix, name) ==
    LET new == dev'[Len(dev')].name IN
        IF name = ""
        THEN /\ new = prefix \o ToString(nextId)
             /\ nextId' = nextId + 1
             /\ \A k \in 1..(nextId - 1) : \A p \in {"PC", "Hub"} : new # p \o ToString(k)
        ELSE /\ new = name
             /\ nextId' = nextId

\* C20: createEndDevice names an unnamed device "PC" + nextId and createHub
\* names an unnamed hub "Hub" + nextId, each incrementing the one counter; a
\* given name is used as it is and leaves the counter alone; the counter starts
\* at 1 and never decreases, so generated names never repeat.
C20_AutoNaming ==
    /\ nextId = 1
    /\ [][/\ \A name \in NameInputs :
                /\ CreateEndDevice(name) => Named("PC", name)
                /\ CreateHub(name) => Named("Hub", name)
          /\ nextId >= 1 /\ nextId' >= nextId]_vars

\* C20 witness: a hub and an end device were created without names, and
\* the end device took the second value of the counter.
C20_Witness ==
    /\ Len(dev) = 2 /\ nextId = 3
    /\ dev[1].name = "Hub1" /\ dev[1].kind = "Hub"
    /\ dev[2].name = "PC2" /\ dev[2].kind = "EndDevice"


\* The connections a hub created by its own connectDevice calls: only there is
\* a hub the first endpoint of a connection.
AttachedBy(h) == {c \in ConnIds : conn[c].deviceA = h}

\* C21: the i-th connectDevice call on a hub records port i-1 as the hub-side
\* port of the new connection and reports that same port (the value it returns
\* is the one it logs), whatever kind of device is attached and however many
\* connections other repeaters have appended to the hub's list; the port was
\* never given out by this hub before; and no step changes a connection that
\* already exists.
C21_HubPortsSequential ==
    [][/\ \A h \in DevIds, d \in DevIds :
            HubConnectDevice(h, d) =>
                LET new == conn'[Len(conn) + 1]
                    log == logs'[dev[h].name]
                IN /\ new.deviceA = h /\ new.deviceB = d
                   /\ new.portA = Cardinality(AttachedBy(h))
                   /\ log[Len(log)].port = new.portA
                   /\ \A c \in AttachedBy(h) : conn[c].portA # new.portA
       /\ \A c \in ConnIds : c <= Len(conn') /\ conn'[c] = conn[c]]_vars

\* C21 witness: a hub that another hub attached first (so its connection list
\* is one longer than its own attach count) has attached a repeater on port 0
\* and an end device on port 1.
C21_Witness ==
    \E h \in Hubs, g \in Hubs, c0 \in ConnIds, c1 \in ConnIds, c2 \in ConnIds :
        /\ g # h /\ c0 < c1 /\ c1 < c2
        /\ conn[c0].deviceA = g /\ conn[c0].deviceB = h
        /\ conn[c1].deviceA = h /\ conn[c1].portA = 0 /\ conn[c1].deviceB \in Hubs \cup Buses
        /\ conn[c2].deviceA = h /\ conn[c2].portA = 1 /\ conn[c2].deviceB \in EndDevices
        /\ dev[h].connections = <<c0, c1, c2>>


\* The receiveData calls that the loop of frame f makes from its slot f.i on,
\* nested calls included, when every call runs to completion before the loop
\* goes on: the program's recursion taken in one piece.  depth is the call
\* depth of f; a call that would exceed MaxDepth ends the process.
RECURSIVE Walk(_, _)
Walk(f, depth) ==
    IF f.i > SlotCount(f) THEN <<>>
    ELSE LET s == CurrentSlot(f)
             call == [from |-> f.dev, inPort |-> f.inPort, depth |-> depth,
                      to |-> s.to, port |-> s.port, sender |-> s.sender,
                      data |-> f.data, via |-> s.via]
             rest == Walk([f EXCEPT !.i = @ + 1], depth)
         IN  IF s.skip THEN rest
             ELSE IF dev[s.to].kind = "EndDevice" THEN <<call>> \o rest
             ELSE IF depth >= MaxDepth THEN <<>>
             ELSE <<call>>
                  \o Walk(Frame("recv", s.to, s.port, s.sender, f.data), depth + 1)
                  \o rest

\* C22: the receiveData calls of a send are made in depth-first order over the
\* connection lists: at every moment of the sweep the calls made so far are the
\* beginning of the one sequence that the topology, the sender and the payload
\* determine, in which a call is followed by all the calls it triggers before
\* the caller's next slot is served; when the send has returned the calls are
\* that whole sequence.
C22_DepthFirstInOrder ==
    (origin # <<>> /\ origin[1] \in EndDevices) =>
        LET whole == Walk(Frame("send", origin[1], NoPort, dev[origin[1]].name,
                                origin[2]), 1)
        IN  /\ IsPrefix(calls, whole)
            /\ Done => calls = whole

\* C22 witness: a send has returned in which a device served one slot, the
\* call made there triggered further calls, and the device then served a later
\* slot; an end device was reached.
C22_Witness ==
    /\ Done
    /\ \E k \in 1..Len(calls), m \in 1..Len(calls), j \in 1..Len(calls) :
        /\ k < m /\ m < j
        /\ calls[k].from = calls[j].from /\ calls[k].depth = calls[j].depth
        /\ calls[k].via # calls[j].via
        /\ calls[m].from = calls[k].to /\ calls[m].depth = calls[k].depth + 1
        /\ \A n \in k..j : calls[n].depth >= calls[k].depth
    /\ \E k \in 1..Len(calls) : calls[k].to \in EndDevices /\ calls[k].depth > 1


\* C23: a receiveData call on an end device makes no call of its own and
\* returns at once to the loop that made it, which goes on to its next slot;
\* it appends one RECEIVED line to the receiving device's log and changes no
\* other log, no device, no connection and no counter (the only other line of
\* the step is the FORWARDED line that a calling repeater writes itself);
\* this whatever the connections of the receiving device are.  Hence no loop
\* ever runs on behalf of a receiving end device.
C23_EndDeviceReceiveTerminal ==
    /\ [][(/\ stack # <<>> /\ ~crashed /\ Top.i <= SlotCount(Top)
           /\ ~CurrentSlot(Top).skip
           /\ dev[CurrentSlot(Top).to].kind = "EndDevice")
          => LET f == Top
                 s == CurrentSlot(f)
                 mine == dev[s.to].name
                 callers == IF f.kind = "recv" THEN {dev[f.dev].name} ELSE {}
             IN  /\ Len(calls') = Len(calls) + 1
                 /\ calls'[Len(calls')].to = s.to
                 /\ Len(stack') = Len(stack)
                 /\ stack'[Len(stack')] = [f EXCEPT !.i = @ + 1]
                 /\ DOMAIN logs' = DOMAIN logs
                 /\ \A n \in DOMAIN logs :
                        n \notin {mine} \cup callers => logs'[n] = logs[n]
                 /\ mine \notin callers =>
                        /\ Len(logs'[mine]) = Len(logs[mine]) + 1
                        /\ SubSeq(logs'[mine], 1, Len(logs[mine])) = logs[mine]
                        /\ IsReceived(logs'[mine][Len(logs'[mine])])
                 /\ UNCHANGED <<topology, origin, nsends, crashed, lifetime>>]_vars
    /\ [](\A k \in 1..Len(stack) : dev[stack[k].dev].kind = "EndDevice" =>
                                      k = 1 /\ stack[k].kind = "send")

\* C23 witness: an end device with two connections, one of them a direct link
\* to a third device, has received the payload of another end device over a
\* direct link; the send has returned and that was its only call.
C23_Witness ==
    /\ Done
    /\ Len(calls) = 1
    /\ LET r == calls[1].to IN
        /\ r \in EndDevices /\ r # origin[1]
        /\ calls[1].from = origin[1]
        /\ Len(dev[r].connections) = 2
        /\ \E c \in Range(dev[r].connections) :
                /\ Ends(c) \subseteq EndDevices /\ Cardinality(Ends(c)) = 2
                /\ r \in Ends(c) /\ origin[1] \notin Ends(c)


\* C24: every entry of every device's connection list is a connection that
\* exists and has that device as one of its two endpoints, after any sequence
\* of connectDevices, Hub::connectDevice and Bus::connectDevice calls, on end
\* devices and repeaters alike.
C24_ListedConnectionsJoinDevice ==
    \A d \in DevIds :
        \A i \in 1..Len(dev[d].connections) :
            /\ dev[d].connections[i] \in ConnIds
            /\ d \in Ends(dev[d].connections[i])

\* C24 witness: a hub has attached a bus, the bus has attached the hub, an end
\* device was attached as well, and every device lists a connection.
C24_Witness ==
    /\ \E c \in ConnIds : conn[c].deviceA \in Hubs /\ conn[c].deviceB \in Buses
    /\ \E c \in ConnIds : conn[c].deviceA \in Buses /\ conn[c].deviceB \in Hubs
    /\ \E c \in ConnIds : conn[c].deviceB \in EndDevices
    /\ \A d \in DevIds : dev[d].connections # <<>>


\* C25: for every bus and every index i below the number of its attached
\* devices, the i-th entry of the bus's connection list is the connection the
\* bus made for the i-th attached device: from the bus, at bus-side port i, to
\* that device.
C25_BusListsAligned ==
    \A b \in Buses :
        \A i \in 1..Len(dev[b].connectedDevices) :
            /\ i <= Len(dev[b].connections)
            /\ conn[dev[b].connections[i]] =
                 Connection(b, dev[b].connectedDevices[i], i - 1, 0)


\* How many times hub h has attached device d
Attachments(h, d) ==
    Cardinality({c \in ConnIds : conn[c].deviceA = h /\ conn[c].deviceB = d})

\* C26: around a single hub that has attached end devices only, a send by a
\* device attached a times makes the hub call receiveData a*b times on every
\* other device, attached b times, and a*(a-1) times on the sender itself.
C26_DeliveryCounts ==
    \A h \in Hubs, r \in EndDevices :
        (Done /\ origin[1] \in EndDevices) =>
            LET a == Attachments(h, origin[1])
                b == Attachments(h, r)
            IN  Cardinality(CallsTo(r)) = IF r = origin[1] THEN a * (a - 1) ELSE a * b

\* C26 witness: the sender is attached twice and another device once; the
\* send has returned, having reached the other device twice and the sender
\* twice.
C26_Witness ==
    \E h \in Hubs, r \in EndDevices :
        /\ Done /\ origin[1] \in EndDevices /\ r # origin[1]
        /\ Attachments(h, origin[1]) = 2 /\ Attachments(h, r) = 1
        /\ Cardinality(CallsTo(r)) = 2
        /\ Cardinality(CallsTo(origin[1])) = 2
====
